---- MODULE Spec2Model ----
(***************************************************************************)
(* Red-black tree insertion of my_red_black_tree.py as a state machine.    *)
(* The heap of RBNode objects is a family of functions from node ids to    *)
(* field values; node 0 is the tree's sentinel self.NIL.  One insert call  *)
(* is the step Insert (descent, allocation, attachment) followed by the    *)
(* iterations of the loop of _insert_fixup (FixupStep) and its exit        *)
(* (FixupExit); an AttributeError raised inside an iteration ends the call *)
(* and leaves the heap as the statements executed so far left it.          *)
(*                                                                         *)
(* The plain binary search tree of my_bst.py is modelled next to it: a     *)
(* program that builds a tree with BST.set_root and then repeats           *)
(* root = root.delete(v).  No two references of that program share a       *)
(* subtree, so a BST object is modelled by its value: <<>> for None and    *)
(* <<value, left, right>> for a node.                                      *)
(***************************************************************************)
EXTENDS Integers, Sequences, FiniteSets, TLC

\* Largest value handed to insert; values are 1..MaxVal.
MaxVal == 6
\* Cap on the number of nodes allocated: beyond what the distinct values of
\* any input set used below need, so that it never stops a call of the code.
MaxNodes == MaxVal + 1

Values == 1..MaxVal

\* Longest list handed to BST.set_root.
MaxLen == 4

RED == "RED"
BLACK == "BLACK"
\* Python's None (the parent a new RBNode is constructed with).
None == -1
\* The sentinel object self.NIL.
NIL == 0
\* The attributes RBTree.__init__ sets on self.
TreeAttrs == {"NIL", "root"}

VARIABLES
    value,      \* value[n]  : RBNode.value
    color,      \* color[n]  : RBNode.color
    parent,     \* parent[n] : RBNode.parent
    left,       \* left[n]   : RBNode.left
    right,      \* right[n]  : RBNode.right
    root,       \* RBTree.root
    pc,         \* "idle": no call in progress; "fixup": at the loop test of _insert_fixup
    node,       \* the local variable `node` of _insert_fixup
    outcome,    \* how the last call ended: "returned", "raised"; "none" before it ends
    lastOp,     \* the method last called from outside: "insert", "rotate_left", "rotate_right"
    lastArg,    \* argument of the last call: a value (insert) or a node (rotation)
    inserted,   \* every value insert was called with so far
    pre,        \* the heap as it was when the last call started
    bst,        \* my_bst.py: the variable `root` of the program using BST
    bstOp,      \* my_bst.py: the last call made, "set_root" or "delete"
    bstArg,     \* my_bst.py: the argument of the last delete call
    bstPre      \* my_bst.py: the tree as it was when the last delete call started

rbVars == <<value, color, parent, left, right, root, pc, node, outcome, lastOp, lastArg, inserted, pre>>

bstVars == <<bst, bstOp, bstArg, bstPre>>

vars == <<value, color, parent, left, right, root, pc, node, outcome, lastOp, lastArg, inserted, pre,
          bst, bstOp, bstArg, bstPre>>

\* The heap as one record, the form the helpers below read and return.
H == [value |-> value, color |-> color, parent |-> parent,
      left |-> left, right |-> right, root |-> root]

\* Number of real nodes allocated so far.
NumNodes(h) == Cardinality(DOMAIN h.color) - 1

HasAttr(a) == a \in TreeAttrs

SetColor(h, n, c) == [h EXCEPT !.color[n] = c]

----------------------------------------------------------------------------
(* insert: descent, lines 63-75 *)

RECURSIVE Descend_swapped(_, _, _, _)
Descend_swapped(h, current, par, v) ==
    IF current = NIL THEN [found |-> FALSE, parent |-> par]
    ELSE IF v < h.value[current] THEN Descend_swapped(h, h.right[current], current, v)
    ELSE IF v > h.value[current] THEN Descend_swapped(h, h.left[current], current, v)
    ELSE [found |-> TRUE, parent |-> current]

RECURSIVE Descend_noDup(_, _, _, _)
Descend_noDup(h, current, par, v) ==
    IF current = NIL THEN [found |-> FALSE, parent |-> par]
    ELSE IF v < h.value[current] THEN Descend_noDup(h, h.left[current], current, v)
    ELSE Descend_noDup(h, h.right[current], current, v)

RECURSIVE Descend(_, _, _, _)
Descend(h, current, par, v) ==
    IF current = NIL THEN [found |-> FALSE, parent |-> par]
    ELSE IF v < h.value[current] THEN Descend(h, h.left[current], current, v)
    ELSE IF v > h.value[current] THEN Descend(h, h.right[current], current, v)
    ELSE [found |-> TRUE, parent |-> current]

(* insert: new_node = RBNode(...), lines 55-61 *)
NewNode(h, n, v) ==
    [h EXCEPT !.value  = (n :> v) @@ h.value,
              !.color  = (n :> RED) @@ h.color,
              !.left   = (n :> NIL) @@ h.left,
              !.right  = (n :> NIL) @@ h.right,
              !.parent = (n :> None) @@ h.parent]

(* insert: wiring the new node in, lines 78-86 *)
Attach_flipped(h, n, par, v) ==
    LET h1 == [h EXCEPT !.parent[n] = par]
    IN  IF par = NIL THEN [h1 EXCEPT !.root = n]
        ELSE IF v > h1.value[par] THEN [h1 EXCEPT !.left[par] = n]
        ELSE [h1 EXCEPT !.right[par] = n]

Attach_parentCurrent(h, n, par, v) ==
    LET h1 == [h EXCEPT !.parent[n] = NIL]
    IN  IF par = NIL THEN [h1 EXCEPT !.root = n]
        ELSE IF v < h1.value[par] THEN [h1 EXCEPT !.left[par] = n]
        ELSE [h1 EXCEPT !.right[par] = n]

Attach(h, n, par, v) ==
    LET h1 == [h EXCEPT !.parent[n] = par]
    IN  IF par = NIL THEN [h1 EXCEPT !.root = n]
        ELSE IF v < h1.value[par] THEN [h1 EXCEPT !.left[par] = n]
        ELSE [h1 EXCEPT !.right[par] = n]

----------------------------------------------------------------------------
(* Rotations.  Both read self.nil, an attribute RBTree never sets (the     *)
(* sentinel is self.NIL), so evaluating the test of line 147 / 177 raises  *)
(* AttributeError before any field is written.                             *)

RotateLeft_selfNIL(h, x) ==
    LET pivot == h.right[x]
    IN  IF pivot = NIL THEN [h |-> h, raised |-> FALSE]
        ELSE
          LET h1 == [h EXCEPT !.right[x] = h.left[pivot]]
              h2 == IF h1.left[pivot] # NIL
                    THEN [h1 EXCEPT !.parent[h1.left[pivot]] = x] ELSE h1
              h3 == [h2 EXCEPT !.parent[pivot] = h2.parent[x]]
              h4 == IF h3.parent[x] = None THEN [h3 EXCEPT !.root = pivot]
                    ELSE IF x = h3.left[h3.parent[x]]
                         THEN [h3 EXCEPT !.left[h3.parent[x]] = pivot]
                         ELSE [h3 EXCEPT !.right[h3.parent[x]] = pivot]
              h5 == [h4 EXCEPT !.left[pivot] = x]
              h6 == [h5 EXCEPT !.parent[x] = pivot]
          IN  [h |-> h6, raised |-> FALSE]

RotateLeft(h, x) ==
    LET pivot == h.right[x]
    IN  IF ~HasAttr("nil") THEN [h |-> h, raised |-> TRUE]
        ELSE IF pivot = NIL THEN [h |-> h, raised |-> FALSE]
        ELSE
          LET h1 == [h EXCEPT !.right[x] = h.left[pivot]]
              h2 == IF h1.left[pivot] # NIL
                    THEN [h1 EXCEPT !.parent[h1.left[pivot]] = x] ELSE h1
              h3 == [h2 EXCEPT !.parent[pivot] = h2.parent[x]]
              h4 == IF h3.parent[x] = None THEN [h3 EXCEPT !.root = pivot]
                    ELSE IF x = h3.left[h3.parent[x]]
                         THEN [h3 EXCEPT !.left[h3.parent[x]] = pivot]
                         ELSE [h3 EXCEPT !.right[h3.parent[x]] = pivot]
              h5 == [h4 EXCEPT !.left[pivot] = x]
              h6 == [h5 EXCEPT !.parent[x] = pivot]
          IN  [h |-> h6, raised |-> FALSE]

RotateRight(h, x) ==
    LET pivot == h.left[x]
    IN  IF ~HasAttr("nil") THEN [h |-> h, raised |-> TRUE]
        ELSE IF pivot = NIL THEN [h |-> h, raised |-> FALSE]
        ELSE
          LET h1 == [h EXCEPT !.left[x] = h.right[pivot]]
              h2 == IF h1.right[pivot] # NIL
                    THEN [h1 EXCEPT !.parent[h1.right[pivot]] = x] ELSE h1
              h3 == [h2 EXCEPT !.parent[pivot] = h2.parent[x]]
              h4 == IF h3.parent[x] = None THEN [h3 EXCEPT !.root = pivot]
                    ELSE IF x = h3.right[h3.parent[x]]
                         THEN [h3 EXCEPT !.right[h3.parent[x]] = pivot]
                         ELSE [h3 EXCEPT !.left[h3.parent[x]] = pivot]
              h5 == [h4 EXCEPT !.right[pivot] = x]
              h6 == [h5 EXCEPT !.parent[x] = pivot]
          IN  [h |-> h6, raised |-> FALSE]

----------------------------------------------------------------------------
(* _insert_fixup: one iteration of the loop body, lines 98-134.  The       *)
(* assignments are applied in program order, each reading the heap the     *)
(* previous one left, so aliasing between parent, uncle, grandparent and   *)
(* the sentinel behaves as in the code.  Besides the heap, the working     *)
(* node and whether the iteration raised, the result lists the rotation    *)
(* calls the iteration made (calls: the function, its argument x and the   *)
(* child of x it pivots on, as they were at the call) and whether lines    *)
(* 113-114 / 132-133 were executed (caseC).                                *)

\* The argument of a rotation call and the child it pivots on.
RotCall(fn, h, x) ==
    [fn |-> fn, x |-> x, child |-> IF fn = "rotate_left" THEN h.right[x] ELSE h.left[x]]

\* Case 1 of either branch (lines 103-106 and 122-125).
Recolor_noUncle(h, z, uncle) ==
    LET h1 == SetColor(h, h.parent[z], BLACK)
        h3 == SetColor(h1, h1.parent[h1.parent[z]], RED)
    IN  [h |-> h3, node |-> h3.parent[h3.parent[z]], raised |-> FALSE,
         calls |-> <<>>, caseC |-> FALSE]

Recolor(h, z, uncle) ==
    LET h1 == SetColor(h, h.parent[z], BLACK)
        h2 == SetColor(h1, uncle, BLACK)
        h3 == SetColor(h2, h2.parent[h2.parent[z]], RED)
    IN  [h |-> h3, node |-> h3.parent[h3.parent[z]], raised |-> FALSE,
         calls |-> <<>>, caseC |-> FALSE]

\* Lines 108-115.
FixLeft(h, z) ==
    LET inner == (z = h.right[h.parent[z]])
        z1 == IF inner THEN h.parent[z] ELSE z
        r1 == IF inner THEN RotateLeft(h, z1) ELSE [h |-> h, raised |-> FALSE]
        c1 == IF inner THEN <<RotCall("rotate_left", h, z1)>> ELSE <<>>
    IN  IF r1.raised THEN [h |-> r1.h, node |-> z1, raised |-> TRUE,
                           calls |-> c1, caseC |-> FALSE]
        ELSE LET h1 == SetColor(r1.h, r1.h.parent[z1], BLACK)
                 h2 == SetColor(h1, h1.parent[h1.parent[z1]], RED)
                 r2 == RotateRight(h2, h2.parent[h2.parent[z1]])
             IN  [h |-> r2.h, node |-> z1, raised |-> r2.raised,
                  calls |-> c1 \o <<RotCall("rotate_right", h2, h2.parent[h2.parent[z1]])>>,
                  caseC |-> TRUE]

\* Lines 127-134.
FixRight(h, z) ==
    LET inner == (z = h.left[h.parent[z]])
        z1 == IF inner THEN h.parent[z] ELSE z
        r1 == IF inner THEN RotateRight(h, z1) ELSE [h |-> h, raised |-> FALSE]
        c1 == IF inner THEN <<RotCall("rotate_right", h, z1)>> ELSE <<>>
    IN  IF r1.raised THEN [h |-> r1.h, node |-> z1, raised |-> TRUE,
                           calls |-> c1, caseC |-> FALSE]
        ELSE LET h1 == SetColor(r1.h, r1.h.parent[z1], BLACK)
                 h2 == SetColor(h1, h1.parent[h1.parent[z1]], RED)
                 r2 == RotateLeft(h2, h2.parent[h2.parent[z1]])
             IN  [h |-> r2.h, node |-> z1, raised |-> r2.raised,
                  calls |-> c1 \o <<RotCall("rotate_left", h2, h2.parent[h2.parent[z1]])>>,
                  caseC |-> TRUE]

FixupBody(h, z) ==
    LET p == h.parent[z]
        g == h.parent[p]
    IN  IF p = h.left[g]
        THEN LET uncle == h.right[g]
             IN  IF h.color[uncle] = RED THEN Recolor(h, z, uncle) ELSE FixLeft(h, z)
        ELSE LET uncle == h.left[g]
             IN  IF h.color[uncle] = RED THEN Recolor(h, z, uncle) ELSE FixRight(h, z)

\* The loop test of line 97.
LoopCond(h, z) == h.color[h.parent[z]] = RED

\* Line 136.
SetRootBlack(h) == SetColor(h, h.root, BLACK)

----------------------------------------------------------------------------
(* my_bst.py *)

\* Python's None as a BST reference.
BstNone == <<>>

\* BST(value), lines 14-18, and a node with given children.
BstNode(v, l, r) == <<v, l, r>>

BstValue(t) == t[1]
BstLeft(t) == t[2]
BstRight(t) == t[3]

\* insert, lines 35-48, as the tree self is after the call.
RECURSIVE BstInsert(_, _)
BstInsert(t, v) ==
    IF v = BstValue(t) THEN t
    ELSE IF v < BstValue(t)
         THEN IF BstLeft(t) = BstNone
              THEN BstNode(BstValue(t), BstNode(v, BstNone, BstNone), BstRight(t))
              ELSE BstNode(BstValue(t), BstInsert(BstLeft(t), v), BstRight(t))
         ELSE IF BstRight(t) = BstNone
              THEN BstNode(BstValue(t), BstLeft(t), BstNode(v, BstNone, BstNone))
              ELSE BstNode(BstValue(t), BstLeft(t), BstInsert(BstRight(t), v))

\* set_root on a non-empty list, lines 141-144: the first i values inserted.
RECURSIVE BstBuild(_, _)
BstBuild(values, i) ==
    IF i = 1 THEN BstNode(values[1], BstNone, BstNone)
    ELSE BstInsert(BstBuild(values, i - 1), values[i])

BstSetRootOf(values) == BstBuild(values, Len(values))

\* The loop of lines 74-76: the value of the leftmost node of t.
RECURSIVE BstLeftmost(_)
BstLeftmost(t) == IF BstLeft(t) # BstNone THEN BstLeftmost(BstLeft(t)) ELSE BstValue(t)

\* delete, lines 51-81: the reference the call returns.
RECURSIVE BstDelete_keepSuccessor(_, _)
BstDelete_keepSuccessor(t, v) ==
    IF v < BstValue(t)
    THEN IF BstLeft(t) # BstNone
         THEN BstNode(BstValue(t), BstDelete_keepSuccessor(BstLeft(t), v), BstRight(t))
         ELSE t
    ELSE IF v > BstValue(t)
    THEN IF BstRight(t) # BstNone
         THEN BstNode(BstValue(t), BstLeft(t), BstDelete_keepSuccessor(BstRight(t), v))
         ELSE t
    ELSE IF BstLeft(t) = BstNone /\ BstRight(t) = BstNone THEN BstNone
    ELSE IF BstLeft(t) = BstNone THEN BstRight(t)
    ELSE IF BstRight(t) = BstNone THEN BstLeft(t)
    ELSE BstNode(BstLeftmost(BstRight(t)), BstLeft(t), BstRight(t))

RECURSIVE BstDelete(_, _)
BstDelete(t, v) ==
    IF v < BstValue(t)
    THEN IF BstLeft(t) # BstNone
         THEN BstNode(BstValue(t), BstDelete(BstLeft(t), v), BstRight(t))
         ELSE t
    ELSE IF v > BstValue(t)
    THEN IF BstRight(t) # BstNone
         THEN BstNode(BstValue(t), BstLeft(t), BstDelete(BstRight(t), v))
         ELSE t
    ELSE IF BstLeft(t) = BstNone /\ BstRight(t) = BstNone THEN BstNone
    ELSE IF BstLeft(t) = BstNone THEN BstRight(t)
    ELSE IF BstRight(t) = BstNone THEN BstLeft(t)
    ELSE LET succ == BstLeftmost(BstRight(t))
         IN  BstNode(succ, BstLeft(t), BstDelete(BstRight(t), succ))

\* inorder, lines 84-92; the empty list for None.
RECURSIVE BstInorder(_)
BstInorder(t) ==
    IF t = BstNone THEN <<>>
    ELSE BstInorder(BstLeft(t)) \o <<BstValue(t)>> \o BstInorder(BstRight(t))

----------------------------------------------------------------------------
(* State machine *)

Init ==
    /\ value = (NIL :> None)
    /\ color = (NIL :> BLACK)
    /\ parent = (NIL :> NIL)
    /\ left = (NIL :> NIL)
    /\ right = (NIL :> NIL)
    /\ root = NIL
    /\ pc = "idle"
    /\ node = NIL
    /\ outcome = "none"
    /\ lastOp = "none"
    /\ lastArg = None
    /\ inserted = {}
    /\ pre = [value |-> (NIL :> None), color |-> (NIL :> BLACK), parent |-> (NIL :> NIL),
              left |-> (NIL :> NIL), right |-> (NIL :> NIL), root |-> NIL]
    /\ bst = BstNone
    /\ bstOp = "none"
    /\ bstArg = None
    /\ bstPre = BstNone

SetHeap(h) ==
    /\ value' = h.value
    /\ color' = h.color
    /\ parent' = h.parent
    /\ left' = h.left
    /\ right' = h.right
    /\ root' = h.root

\* insert(v) up to the call of _insert_fixup, or up to the return of line 75.
Insert(v) ==
    /\ pc = "idle"
    /\ LET d == Descend(H, root, NIL, v)
       IN  IF d.found
           THEN /\ SetHeap(H)
                /\ pc' = "idle"
                /\ node' = NIL
                /\ outcome' = "returned"
           ELSE /\ NumNodes(H) < MaxNodes
                /\ LET n == NumNodes(H) + 1
                   IN  /\ SetHeap(Attach(NewNode(H, n, v), n, d.parent, v))
                       /\ node' = n
                /\ pc' = "fixup"
                /\ outcome' = "none"
    /\ lastOp' = "insert"
    /\ lastArg' = v
    /\ inserted' = inserted \cup {v}
    /\ pre' = H
    /\ UNCHANGED bstVars

\* One iteration of the while loop of _insert_fixup.
FixupStep ==
    /\ pc = "fixup"
    /\ LoopCond(H, node)
    /\ LET r == FixupBody(H, node)
       IN  /\ SetHeap(r.h)
           /\ IF r.raised
              THEN pc' = "idle" /\ node' = NIL /\ outcome' = "raised"
              ELSE pc' = "fixup" /\ node' = r.node /\ outcome' = outcome
    /\ UNCHANGED <<lastOp, lastArg, inserted, pre>>
    /\ UNCHANGED bstVars

\* The loop test fails: line 136, then insert returns.
FixupExit ==
    /\ pc = "fixup"
    /\ ~LoopCond(H, node)
    /\ SetHeap(SetRootBlack(H))
    /\ pc' = "idle"
    /\ node' = NIL
    /\ outcome' = "returned"
    /\ UNCHANGED <<lastOp, lastArg, inserted, pre>>
    /\ UNCHANGED bstVars

Next ==
    \/ \E v \in Values : Insert(v)
    \/ FixupStep
    \/ FixupExit

Spec == Init /\ [][Next]_vars

\* _rotate_left(x) called on its own, on a real node x of the tree whose right
\* child is a real node.
RotateLeftCall(x) ==
    /\ pc = "idle"
    /\ x \in DOMAIN color \ {NIL}
    /\ right[x] # NIL
    /\ LET r == RotateLeft(H, x)
       IN  /\ SetHeap(r.h)
           /\ outcome' = IF r.raised THEN "raised" ELSE "returned"
    /\ pc' = "idle"
    /\ node' = NIL
    /\ lastOp' = "rotate_left"
    /\ lastArg' = x
    /\ pre' = H
    /\ UNCHANGED inserted
    /\ UNCHANGED bstVars

\* _rotate_right(x) called on its own, on a real node x whose left child is a
\* real node.
RotateRightCall(x) ==
    /\ pc = "idle"
    /\ x \in DOMAIN color \ {NIL}
    /\ left[x] # NIL
    /\ LET r == RotateRight(H, x)
       IN  /\ SetHeap(r.h)
           /\ outcome' = IF r.raised THEN "raised" ELSE "returned"
    /\ pc' = "idle"
    /\ node' = NIL
    /\ lastOp' = "rotate_right"
    /\ lastArg' = x
    /\ pre' = H
    /\ UNCHANGED inserted
    /\ UNCHANGED bstVars

\* The trees insert builds, with the rotations applied to them directly.
RotNext ==
    \/ \E v \in Values : Insert(v)
    \/ FixupStep
    \/ FixupExit
    \/ \E x \in 1..MaxNodes : RotateLeftCall(x)
    \/ \E x \in 1..MaxNodes : RotateRightCall(x)

RotSpec == Init /\ [][RotNext]_vars

\* root = BST.set_root(values) for a non-empty list of values.
BstSetRoot(values) ==
    /\ bstOp = "none"
    /\ bst' = BstSetRootOf(values)
    /\ bstOp' = "set_root"
    /\ UNCHANGED <<bstArg, bstPre>>
    /\ UNCHANGED rbVars

\* root = root.delete(v), on a root that is a tree.
BstDeleteCall(v) ==
    /\ bstOp # "none"
    /\ bst # BstNone
    /\ bst' = BstDelete(bst, v)
    /\ bstOp' = "delete"
    /\ bstArg' = v
    /\ bstPre' = bst
    /\ UNCHANGED rbVars

BstLists == UNION {[1..n -> Values] : n \in 1..MaxLen}

BstNext ==
    \/ \E values \in BstLists : BstSetRoot(values)
    \/ \E v \in Values : BstDeleteCall(v)

BstSpec == Init /\ [][BstNext]_vars

\* The example of lines 200-203: tree.insert(v) for v in values, and the
\* same calls in every other order.
Scenario1 == <<20, 10, 25, 5, 15, 30>>

Scenario1Next ==
    \/ \E i \in 1..Len(Scenario1) : Insert(Scenario1[i])
    \/ FixupStep
    \/ FixupExit

Scenario1Spec == Init /\ [][Scenario1Next]_vars

\* Ascending input 10, 20, ..., 70, and the same calls in every other order.
Scenario2 == <<10, 20, 30, 40, 50, 60, 70>>

Scenario2Next ==
    \/ \E i \in 1..Len(Scenario2) : Insert(Scenario2[i])
    \/ FixupStep
    \/ FixupExit

Scenario2Spec == Init /\ [][Scenario2Next]_vars

\* A running call keeps running: the interpreter executes the next iteration.
FairSpec == Spec /\ WF_vars(FixupStep) /\ WF_vars(FixupExit)

----------------------------------------------------------------------------
(* Observations of the tree reachable from root *)

\* The real nodes of the subtree rooted at n.
RECURSIVE Sub(_)
Sub(n) == IF n = NIL THEN {} ELSE {n} \cup Sub(left[n]) \cup Sub(right[n])

Reach == Sub(root)

\* In-order traversal: the values of the subtree rooted at n, left to right.
RECURSIVE InOrder(_)
InOrder(n) == IF n = NIL THEN <<>> ELSE InOrder(left[n]) \o <<value[n]>> \o InOrder(right[n])

Keys == {value[n] : n \in Reach}

\* Number of nodes on the longest downward path from n (0 for the sentinel).
RECURSIVE Height(_)
Height(n) ==
    IF n = NIL THEN 0
    ELSE LET hl == Height(left[n])
             hr == Height(right[n])
         IN  1 + (IF hl > hr THEN hl ELSE hr)

\* The numbers of BLACK real nodes met on the downward paths from n to the sentinel.
RECURSIVE BlackCounts(_)
BlackCounts(n) ==
    IF n = NIL THEN {0}
    ELSE {c + (IF color[n] = BLACK THEN 1 ELSE 0) :
              c \in BlackCounts(left[n]) \cup BlackCounts(right[n])}

\* The elements of a finite set of integers in increasing order.
RECURSIVE SortedSeq(_)
SortedSeq(S) ==
    IF S = {} THEN <<>>
    ELSE LET m == CHOOSE x \in S : \A y \in S : x <= y
         IN  <<m>> \o SortedSeq(S \ {m})

NoRedRed == \A n \in Reach : color[n] = RED => color[left[n]] # RED /\ color[right[n]] # RED

BlackHeightOK == \A n \in Reach : Cardinality(BlackCounts(n)) = 1

StrictBST ==
    /\ \A n \in Reach : /\ \A m \in Sub(left[n]) : value[m] < value[n]
                        /\ \A m \in Sub(right[n]) : value[m] > value[n]
    /\ \A a, b \in Reach : value[a] = value[b] => a = b

RootBlack == root # NIL /\ color[root] = BLACK

\* The values of the nodes in the order the calls that stored them were made.
InsertionOrder == [k \in 1..NumNodes(H) |-> value[k]]

\* The node holding value v (NIL if none).
NodeOf(v) == IF \E n \in Reach : value[n] = v THEN CHOOSE n \in Reach : value[n] = v ELSE NIL

\* The last call found its value in a node allocated by an earlier call.
LastCallWasDuplicate ==
    /\ pc = "idle"
    /\ \E k \in 1..(NumNodes(H) - 1) : value[k] = lastArg

----------------------------------------------------------------------------
(* Claims *)

\* C1: after every insert call, no RED node reachable from root has a RED
\* left or right child.
C1_NoRedRed == pc = "idle" => NoRedRed

\* C2: after every insert call, for every node reachable from root all
\* downward paths to the sentinel contain the same number of BLACK nodes.
C2_BlackHeight == pc = "idle" => BlackHeightOK

\* C3: after every insert call the tree reachable from root is a strict
\* binary search tree: left subtree values are smaller, right subtree values
\* are greater, and no value occurs in two nodes.
C3_StrictBST == pc = "idle" => StrictBST

C3_Witness ==
    /\ pc = "idle"
    /\ Cardinality(Reach) >= 5
    /\ left[root] # NIL /\ right[root] # NIL
    /\ \E n \in Reach : n # root /\ left[n] # NIL /\ right[n] # NIL

\* C4: after every insert call, root is a real node (not the sentinel)
\* colored BLACK.
C4_RootBlack == (pc = "idle" /\ outcome # "none") => RootBlack

\* C5: after any sequence of insert calls (any order, duplicates allowed) the
\* in-order traversal from root is exactly the sorted sequence of the
\* distinct values inserted so far.
C5_InOrderSorted == pc = "idle" => InOrder(root) = SortedSeq(inserted)

C5_Witness ==
    /\ LastCallWasDuplicate
    /\ Len(InOrder(root)) >= 5
    /\ value[root] # InOrder(root)[1]
    /\ \E k \in 1..(NumNodes(H) - 1) : value[k] > value[k + 1]
    /\ \E k \in 1..(NumNodes(H) - 1) : value[k] < value[k + 1]

\* C6: after every insert call the height h of the tree and the number n of
\* values it holds satisfy h <= 2*log2(n+1), that is 2^h <= (n+1)^2.
C6_HeightBound ==
    pc = "idle" => 2 ^ Height(root) <= (Cardinality(Reach) + 1) * (Cardinality(Reach) + 1)

\* C7: insert(v) on a tree that already contains v changes no field of any
\* node nor root and returns normally; and while only one value has ever
\* been stored, the tree is a single BLACK root whose children are the
\* sentinel.
C7_DuplicateNoOp ==
    [][ /\ (pc = "idle" /\ lastArg' \in Keys)
            => (H' = H /\ pc' = "idle" /\ outcome' = "returned")
        /\ (pc' = "idle" /\ Cardinality(inserted') = 1)
            => (root' # NIL /\ color'[root'] = BLACK /\ parent'[root'] = NIL
                /\ left'[root'] = NIL /\ right'[root'] = NIL /\ NumNodes(H') = 1)
      ]_vars

C7_Witness ==
    /\ LastCallWasDuplicate
    /\ outcome = "returned"
    /\ Cardinality(Reach) >= 3
    /\ H = pre

\* C8: every insert call either completes (the value is attached and the
\* red-black and BST invariants hold when it ends) or leaves the tree as it
\* was when the call started, also when the call ends by raising.
C8_AllOrNothing ==
    (pc = "idle" /\ outcome # "none")
        => \/ H = pre
           \/ /\ lastArg \in Keys
              /\ NoRedRed /\ BlackHeightOK /\ StrictBST /\ RootBlack /\ color[NIL] = BLACK

\* C9: the sentinel's color is BLACK in every reachable state.
C9_SentinelBlack == color[NIL] = BLACK

\* A state in which the loop test holds and the loop body, run to its end
\* without raising, leaves every field and the working node as they were:
\* the deterministic loop then repeats this iteration forever.  In the model
\* the iteration is a step that changes no variable.
FixupSpins ==
    /\ pc = "fixup"
    /\ LoopCond(H, node)
    /\ LET r == FixupBody(H, node)
       IN  ~r.raised /\ r.h = H /\ r.node = node

\* C10: every insert call terminates: a call that has entered the fixup
\* loop eventually leaves it.
C10_FixupTerminates == (pc = "fixup") ~> (pc = "idle")

\* C11: inserting 20, 10, 25, 5, 15, 30 in that order into a new tree: every
\* insert returns normally, and the result is root 20 BLACK with children
\* 10 BLACK and 25 BLACK, 10's children 5 RED and 15 RED, 25's right child
\* 30 RED and 25's left child the sentinel.
C11_Scenario1 ==
    (/\ pc = "idle"
     /\ NumNodes(H) >= 1
     /\ InsertionOrder = SubSeq(Scenario1, 1, NumNodes(H))
     /\ lastArg = Scenario1[NumNodes(H)])
    => /\ outcome = "returned"
       /\ NumNodes(H) = Len(Scenario1) =>
            /\ root = NodeOf(20) /\ root # NIL /\ color[root] = BLACK
            /\ left[root] = NodeOf(10) /\ left[root] # NIL /\ color[NodeOf(10)] = BLACK
            /\ right[root] = NodeOf(25) /\ right[root] # NIL /\ color[NodeOf(25)] = BLACK
            /\ left[NodeOf(10)] = NodeOf(5) /\ NodeOf(5) # NIL /\ color[NodeOf(5)] = RED
            /\ right[NodeOf(10)] = NodeOf(15) /\ NodeOf(15) # NIL /\ color[NodeOf(15)] = RED
            /\ right[NodeOf(25)] = NodeOf(30) /\ NodeOf(30) # NIL /\ color[NodeOf(30)] = RED
            /\ left[NodeOf(25)] = NIL

C11_Witness ==
    /\ pc = "idle"
    /\ InsertionOrder = Scenario1
    /\ lastArg = 30
    /\ outcome = "returned"

\* C12: inserting 10, 20, 30, 40, 50, 60, 70 in that order into a new tree
\* leaves all seven values reachable from root in a tree of height at most 3
\* (counted in edges, the reading under which a balanced tree of seven nodes
\* has height 2 and a right chain height 6).
C12_Scenario2 ==
    (pc = "idle" /\ InsertionOrder = Scenario2)
    => /\ Keys = {Scenario2[i] : i \in 1..Len(Scenario2)}
       /\ Height(root) - 1 <= 3

\* The in-order traversal of the subtree rooted at n in heap h.
RECURSIVE InOrderIn(_, _)
InOrderIn(h, n) ==
    IF n = NIL THEN <<>>
    ELSE InOrderIn(h, h.left[n]) \o <<h.value[n]>> \o InOrderIn(h, h.right[n])

\* The last call was a rotation called on its own, and it has ended.
AfterRotation == pc = "idle" /\ lastOp \in {"rotate_left", "rotate_right"}

\* The child the last rotation call was to pivot on, as it was before the call.
PivotOfLast == IF lastOp = "rotate_left" THEN pre.right[lastArg] ELSE pre.left[lastArg]

\* C13: after _rotate_left(x) or _rotate_right(x) with the required child y a
\* real node: if x was root, root is y and y.parent is the sentinel; if not,
\* y is the child of x's former parent on the side x was, and root is
\* unchanged.
C13_RotationRelinks ==
    AfterRotation =>
        LET x == lastArg
            y == PivotOfLast
            p == pre.parent[x]
        IN  IF pre.root = x
            THEN root = y /\ parent[y] = NIL
            ELSE /\ root = pre.root
                 /\ pre.left[p] = x => left[p] = y
                 /\ pre.right[p] = x => right[p] = y

\* C14: whenever the fixup calls a rotation, the argument is a real node and
\* the child it pivots on (right for _rotate_left, left for _rotate_right)
\* is not the sentinel.
C14_RotationPrecondition ==
    (pc = "fixup" /\ LoopCond(H, node))
    => LET cs == FixupBody(H, node).calls
       IN  \A i \in 1..Len(cs) : cs[i].x # NIL /\ cs[i].child # NIL

\* C15: a rotation of a real node whose required child is real completes and
\* leaves the in-order sequence of values from root, every node's value and
\* every node's color unchanged.
C15_RotationPreservesOrder ==
    AfterRotation =>
        /\ outcome = "returned"
        /\ InOrder(root) = InOrderIn(pre, pre.root)
        /\ value = pre.value
        /\ color = pre.color

\* C16: an iteration of the fixup loop that takes Case C (recolor parent
\* BLACK and grandparent RED, rotate grandparent) comes back to the loop test
\* with the working node's parent BLACK, so the loop exits; an iteration
\* makes at most two rotation calls.
C16_CaseCEndsLoop ==
    (pc = "fixup" /\ LoopCond(H, node))
    => LET r == FixupBody(H, node)
       IN  /\ Len(r.calls) <= 2
           /\ r.caseC => (~r.raised /\ ~LoopCond(r.h, r.node))

\* C17: after every insert call parent links agree with child links:
\* root.parent is the sentinel, every non-sentinel child c of a reachable
\* node n has c.parent = n, and every reachable node other than root is
\* the left or right child of its parent.
C17_ParentLinks ==
    pc = "idle" =>
        /\ parent[root] = NIL
        /\ \A n \in Reach :
              /\ left[n] # NIL => parent[left[n]] = n
              /\ right[n] # NIL => parent[right[n]] = n
              /\ n # root => (left[parent[n]] = n \/ right[parent[n]] = n)

C17_Witness ==
    /\ pc = "idle"
    /\ outcome = "raised"
    /\ Cardinality(Reach) >= 5
    /\ \E n \in Reach : left[n] # NIL /\ right[n] # NIL /\ parent[n] # NIL

\* C18: in every reachable state the sentinel's parent, left and right are
\* the sentinel itself.
C18_SentinelLinks == parent[NIL] = NIL /\ left[NIL] = NIL /\ right[NIL] = NIL

\* A call has ended in a rotation called on the sentinel, after the sentinel's
\* color was written: its links are the fields that call would have touched.
C18_Witness ==
    /\ pc = "idle"
    /\ outcome = "raised"
    /\ color[NIL] = RED
    /\ parent[root] = NIL
    /\ C18_SentinelLinks

StrictlySorted(q) == \A i \in 1..(Len(q) - 1) : q[i] < q[i + 1]

\* The sequence q without the occurrences of v.
RECURSIVE Without(_, _)
Without(q, v) ==
    IF q = <<>> THEN <<>>
    ELSE (IF Head(q) = v THEN <<>> ELSE <<Head(q)>>) \o Without(Tail(q), v)

\* C19: for the plain BST built by set_root, inorder() is strictly sorted,
\* and after root = root.delete(v) the inorder() of the returned tree is the
\* previous inorder() with v removed (unchanged if v was absent) and still
\* strictly sorted; delete returns None exactly when v was the only value.
C19_BstDelete ==
    /\ bstOp = "set_root" => StrictlySorted(BstInorder(bst))
    /\ bstOp = "delete" =>
          /\ BstInorder(bst) = Without(BstInorder(bstPre), bstArg)
          /\ StrictlySorted(BstInorder(bst))
          /\ (bst = BstNone) <=> (BstInorder(bstPre) = <<bstArg>>)

\* The call deleted the value of a node with two children whose successor is
\* not its right child (CASE 4, with the loop of lines 75-76 iterating).
C19_Witness ==
    /\ bstOp = "delete"
    /\ bstPre # BstNone
    /\ BstValue(bstPre) = bstArg
    /\ BstLeft(bstPre) # BstNone
    /\ BstRight(bstPre) # BstNone
    /\ BstLeft(BstRight(bstPre)) # BstNone
    /\ Len(BstInorder(bst)) = Len(BstInorder(bstPre)) - 1

====
